---- MODULE Spec2Model ----
(***************************************************************************)
(* Model of lottie_filter.py: the colour transform adjust_color_triplet,   *)
(* the colour rewriters adjust_rgba and adjust_gradient, and the tree walk *)
(* recurse over a decoded JSON document.                                   *)
(*                                                                         *)
(* JSON values are tagged records.  Numbers are fixed-point integers in    *)
(* units of 1/Unit (1.0 is Unit); a product of two numbers is rounded      *)
(* down to the resolution, which stands for the rounding of the floats.    *)
(* A Python exception is the field raised = TRUE of an operator's result:  *)
(* the object keeps what was written to it before the exception.           *)
(***************************************************************************)
EXTENDS Integers, Sequences, FiniteSets, TLC

VARIABLES fn, pc, cfg, input, obj, adj

vars == <<fn, pc, cfg, input, obj, adj>>

-----------------------------------------------------------------------------
(* Numbers *)

\* The float 1.0 in fixed-point units.
Unit == 1000

Half == Unit \div 2

\* Python's builtin max and min on two numbers.
Max(a, b) == IF a >= b THEN a ELSE b

Min(a, b) == IF a <= b THEN a ELSE b

Max3(a, b, c) == Max(Max(a, b), c)

Min3(a, b, c) == Min(Min(a, b), c)

\* Quotient rounded down, for a divisor of either sign.
FloorDiv(a, b) == IF b > 0 THEN a \div b ELSE (-a) \div (-b)

RECURSIVE Gcd(_, _)
Gcd(a, b) == IF b = 0 THEN a ELSE Gcd(b, a % b)

-----------------------------------------------------------------------------
(* JSON values: mappings (ordered keys), sequences and scalars *)

Num(x) == [t |-> "num", n |-> x, s |-> <<>>, keys |-> <<>>, vals |-> <<>>]

Bool(b) == [t |-> "bool", n |-> IF b THEN 1 ELSE 0, s |-> <<>>, keys |-> <<>>, vals |-> <<>>]

\* A string holds its characters, so that Python's substring test can be modelled.
Str(chars) == [t |-> "str", n |-> 0, s |-> chars, keys |-> <<>>, vals |-> <<>>]

Null == [t |-> "null", n |-> 0, s |-> <<>>, keys |-> <<>>, vals |-> <<>>]

List(items) == [t |-> "list", n |-> 0, s |-> <<>>, keys |-> <<>>, vals |-> items]

Dict(ks, vs) == [t |-> "dict", n |-> 0, s |-> <<>>, keys |-> ks, vals |-> vs]

IsDict(v) == v.t = "dict"

IsList(v) == v.t = "list"

\* What Python arithmetic accepts: int, float and bool (a subclass of int).
IsNumber(v) == v.t \in {"num", "bool"}

\* The numeric value Python computes with: True is 1, False is 0.
NumVal(v) == IF v.t = "bool" THEN v.n * Unit ELSE v.n

HasKey(d, key) == \E i \in 1..Len(d.keys) : d.keys[i] = key

KeyIndex(d, key) == CHOOSE i \in 1..Len(d.keys) : d.keys[i] = key

\* dict.get(key): the value, or None.
DictGet(d, key) == IF HasKey(d, key) THEN d.vals[KeyIndex(d, key)] ELSE Null

\* d[key] = v for a key the mapping already has: the key keeps its place.
DictSet(d, key, v) == [d EXCEPT !.vals[KeyIndex(d, key)] = v]

-----------------------------------------------------------------------------
(* Config *)

Config(c, b, s, h) == [contrast |-> c, brightness |-> b, saturation |-> s, hue_deg |-> h]

Neutral == Config(Unit, 0, Unit, 0)

-----------------------------------------------------------------------------
(* adjust_color_triplet *)

\* lerp with its two ends exchanged.
lerp_swapped(a, b, t) == b + FloorDiv((a - b) * t, Unit)

lerp(a, b, t) == a + FloorDiv((b - a) * t, Unit)

\* A fraction n/d: the hue h and the saturation s of colorsys are kept exact.
Frac(n, d) == [n |-> n, d |-> d]

\* The body of colorsys.rgb_to_hsv, given maxc and minc.  rangec / maxc
\* divides by zero when the largest channel is 0 and another is negative.
hsv_of(r, g, b, maxc, minc) ==
    LET rangec == maxc - minc
        h6 == IF r = maxc THEN g - b
              ELSE IF g = maxc THEN 2 * rangec + (b - r)
              ELSE 4 * rangec + (r - g)
    IN  IF minc = maxc
        THEN [raised |-> FALSE, h |-> Frac(0, 1), s |-> Frac(0, 1), v |-> maxc]
        ELSE IF maxc = 0
        THEN [raised |-> TRUE, h |-> Frac(0, 1), s |-> Frac(0, 1), v |-> maxc]
        ELSE [raised |-> FALSE, h |-> Frac(h6 % (6 * rangec), 6 * rangec),
              s |-> Frac(rangec, maxc), v |-> maxc]

\* colorsys.rgb_to_hsv
rgb_to_hsv(r, g, b) == hsv_of(r, g, b, Max3(r, g, b), Min3(r, g, b))

Reduced(n, d, c) == Frac(n \div c, d \div c)

\* h = (h + (cfg.hue_deg / 360.0)) % 1.0
rotate_hue(h, hue_deg) ==
    Reduced((360 * h.n + hue_deg * h.d) % (360 * h.d), 360 * h.d,
            Gcd(360 * h.d, (360 * h.n + hue_deg * h.d) % (360 * h.d)))

\* The body of colorsys.hsv_to_rgb, given i = int(h*6.0) and vs = v*s;
\* f = (h*6.0) - i is f / h.d here.
sextant(h, v, i, vs) ==
    LET f == 6 * h.n - i * h.d
        p == v - vs
        q == v - FloorDiv(vs * f, h.d)
        t == v - FloorDiv(vs * (h.d - f), h.d)
        j == i % 6
    IN  IF j = 0 THEN <<v, t, p>>
        ELSE IF j = 1 THEN <<q, v, p>>
        ELSE IF j = 2 THEN <<p, v, t>>
        ELSE IF j = 3 THEN <<p, q, v>>
        ELSE IF j = 4 THEN <<t, p, v>>
        ELSE <<v, p, q>>

\* colorsys.hsv_to_rgb
hsv_to_rgb(h, s, v) ==
    IF s.n = 0 THEN <<v, v, v>>
    ELSE sextant(h, v, (6 * h.n) \div h.d, FloorDiv(v * s.n, s.d))

\* Lines 26-27, given the result of rgb_to_hsv.
shifted(hsv, c) ==
    IF hsv.raised THEN [raised |-> TRUE, rgb |-> <<0, 0, 0>>]
    ELSE [raised |-> FALSE, rgb |-> hsv_to_rgb(rotate_hue(hsv.h, c.hue_deg), hsv.s, hsv.v)]

\* Lines 24-27: the hue shift, skipped when cfg.hue_deg is 0.
hue_shift(r, g, b, c) ==
    IF c.hue_deg = 0 THEN [raised |-> FALSE, rgb |-> <<r, g, b>>]
    ELSE shifted(rgb_to_hsv(r, g, b), c)

\* The luma with the weights of red and green exchanged.
luma_swapped(r, g, b) == FloorDiv(587 * r + 299 * g + 114 * b, 1000)

\* gray = 0.299*r + 0.587*g + 0.114*b
luma(r, g, b) == FloorDiv(299 * r + 587 * g + 114 * b, 1000)

contrast_fn(x, c) == Max(0, Min(Unit, Half + FloorDiv(c.contrast * (x - Half), Unit)))

\* The brightness stage without its clamp.
brightness_unclamped(x, c) == x + c.brightness

brightness_fn(x, c) == Max(0, Min(Unit, x + c.brightness))

\* The saturation, contrast and brightness stages on one channel x.
grade(x, gray, c) == brightness_fn(contrast_fn(lerp(gray, x, c.saturation), c), c)

\* Lines 31-43 on the hue-shifted triplet.
graded(rgb, gray, c) ==
    [raised |-> FALSE,
     r |-> Num(grade(rgb[1], gray, c)),
     g |-> Num(grade(rgb[2], gray, c)),
     b |-> Num(grade(rgb[3], gray, c))]

Raised3(r, g, b) == [raised |-> TRUE, r |-> r, g |-> g, b |-> b]

\* Lines 29-43, given the outcome hs of the hue shift.
after_hue(hs, r, g, b, c) ==
    IF hs.raised THEN Raised3(r, g, b)
    ELSE graded(hs.rgb, luma(hs.rgb[1], hs.rgb[2], hs.rgb[3]), c)

\* r, g, b are JSON values: arithmetic on anything but a number raises TypeError.
adjust_color_triplet(r, g, b, c) ==
    IF ~(IsNumber(r) /\ IsNumber(g) /\ IsNumber(b)) THEN Raised3(r, g, b)
    ELSE after_hue(hue_shift(NumVal(r), NumVal(g), NumVal(b), c), r, g, b, c)

-----------------------------------------------------------------------------
(* adjust_rgba, adjust_gradient, recurse *)

\* Every operator below returns [raised, val, adj]: whether an exception left
\* it, the object as mutated so far, and the places (paths relative to the
\* object) at which adjust_color_triplet was called, in call order.
Result(raised, val, paths) == [raised |-> raised, val |-> val, adj |-> paths]

Unchanged(val) == Result(FALSE, val, <<>>)

Prefix(key, paths) == [i \in 1..Len(paths) |-> <<key>> \o paths[i]]

\* The path element of a list index (0-based, as in Python).
Index(i) == ToString(i)

\* d[key] = r.val, where r is the outcome of a call on d[key]; a mutation in
\* place of d[key] shows in d whether or not the call raised.
Store(d, key, r) == Result(r.raised, DictSet(d, key, r.val), Prefix(key, r.adj))

\* The same for a list d[key] whose elements r.val were mutated in place.
StoreList(d, key, r) == Result(r.raised, DictSet(d, key, List(r.val)), Prefix(key, r.adj))

\* A loop's step at path element at, with outcome r, then the rest of the loop.
Then(at, r, rest) == Result(rest.raised, rest.val, Prefix(at, r.adj) \o rest.adj)

\* Two statements in a row: the outcome of the second, after the calls of the first.
After(first, second) == Result(second.raised, second.val, first.adj \o second.adj)

\* a = color[3] if len(color) > 3 else 1
alpha(color) == IF Len(color.vals) > 3 THEN color.vals[4] ELSE Num(Unit)

\* return [r, g, b, a]
rgba_list(t, a) == List(<<t.r, t.g, t.b, a>>)

\* Lines 50-52, given the outcome t of adjust_color_triplet.
rgba_of(t, color) ==
    IF t.raised THEN Result(TRUE, color, << <<>> >>)
    ELSE Result(FALSE, rgba_list(t, alpha(color)), << <<>> >>)

adjust_rgba(color, c) ==
    IF ~IsList(color) \/ Len(color.vals) < 3 THEN Unchanged(color)
    ELSE rgba_of(adjust_color_triplet(color.vals[1], color.vals[2], color.vals[3], c), color)

\* The stop len(arr)-4, which leaves out the last group of an array of 4m values.
range_stop_short(n) == n - 4

\* The stop of range(0, len(arr)-3, 4).
range_stop(n) == n - 3

\* The slice arr[i:i+3], which overwrites the offset of the group.
write_channels_shifted(arr, i, t) == [arr EXCEPT ![i + 1] = t.r, ![i + 2] = t.g, ![i + 3] = t.b]

\* arr[i+1:i+4] = [r, g, b]   (arr is 1-based here, i is Python's 0-based index)
write_channels(arr, i, t) == [arr EXCEPT ![i + 2] = t.r, ![i + 3] = t.g, ![i + 4] = t.b]

\* The loop of adjust_gradient from index i on; gradient_step is its body,
\* given the outcome t of adjust_color_triplet.
RECURSIVE gradient_loop(_, _, _), gradient_step(_, _, _, _)
gradient_loop(arr, i, c) ==
    IF i >= range_stop(Len(arr)) THEN Unchanged(arr)
    ELSE gradient_step(arr, i, c, adjust_color_triplet(arr[i + 2], arr[i + 3], arr[i + 4], c))

gradient_step(arr, i, c, t) ==
    IF t.raised THEN Result(TRUE, arr, << <<Index(i)>> >>)
    ELSE Then(Index(i), Result(FALSE, arr, << <<>> >>),
              gradient_loop(write_channels(arr, i, t), i + 4, c))

adjust_gradient(gradient, c) ==
    IF ~IsList(DictGet(gradient, "k")) THEN Unchanged(gradient)
    ELSE StoreList(gradient, "k", gradient_loop(DictGet(gradient, "k").vals, 0, c))

\* Python's `key in f`: "yes", "no", or "raise" (TypeError) when f is not a container.
Contains(f, key) ==
    IF IsDict(f) THEN (IF HasKey(f, key) THEN "yes" ELSE "no")
    ELSE IF IsList(f)
    THEN (IF \E i \in 1..Len(f.vals) : f.vals[i].t = "str" /\ f.vals[i].s = <<key>>
          THEN "yes" ELSE "no")
    ELSE IF f.t = "str"
    THEN (IF \E i \in 1..Len(f.s) : f.s[i] = key THEN "yes" ELSE "no")
    ELSE "raise"

\* if key in f: f[key] = adjust_rgba(f[key], cfg), given m = (key in f);
\* f[key] raises TypeError on a list or a string.
field_case(f, key, c, m) ==
    IF m = "no" THEN Unchanged(f)
    ELSE IF m = "raise" \/ ~IsDict(f) THEN Result(TRUE, f, <<>>)
    ELSE Store(f, key, adjust_rgba(DictGet(f, key), c))

adjust_field(f, key, c) == field_case(f, key, c, Contains(f, key))

\* Line 77 after line 76, whose outcome is s.
then_e(s, c) ==
    IF s.raised THEN s
    ELSE After(s, adjust_field(s.val, "e", c))

\* Lines 76-77 for one entry f of a keyframe sequence.
adjust_keyframe(f, c) == then_e(adjust_field(f, "s", c), c)

\* for f in k: ... from the i-th entry on; keyframe_step is the rest of the
\* loop after the i-th entry, whose outcome is r.
RECURSIVE keyframe_loop(_, _, _), keyframe_step(_, _, _, _)
keyframe_loop(k, i, c) ==
    IF i > Len(k) THEN Unchanged(k)
    ELSE keyframe_step(k, i, c, adjust_keyframe(k[i], c))

keyframe_step(k, i, c, r) ==
    IF r.raised THEN Result(TRUE, [k EXCEPT ![i] = r.val], Prefix(Index(i - 1), r.adj))
    ELSE Then(Index(i - 1), r, keyframe_loop([k EXCEPT ![i] = r.val], i + 1, c))

ColourKeys == {"c", "fc", "sc", "lc"}

\* isinstance(k, list) and len(k) >= 3
is_static(k) == IsList(k) /\ Len(k.vals) >= 3

\* isinstance(k, list) and len(k) > 0 and isinstance(k[0], dict)
is_keyframes(k) == IsList(k) /\ Len(k.vals) > 0 /\ IsDict(k.vals[1])

\* Lines 72-77, given k = val.get("k").
colour_case(val, k, c) ==
    IF is_static(k) THEN Store(val, "k", adjust_rgba(k, c))
    ELSE IF is_keyframes(k) THEN StoreList(val, "k", keyframe_loop(k.vals, 1, c))
    ELSE Unchanged(val)

\* Lines 71-77: the mapping val stored under a direct-colour key.
adjust_colour(val, c) == colour_case(val, DictGet(val, "k"), c)

\* Lines 81-82, given k = val.get("k").
g_case(val, k, c) ==
    IF IsDict(k) /\ IsList(DictGet(k, "k")) THEN Store(val, "k", adjust_gradient(k, c))
    ELSE Unchanged(val)

\* Lines 80-82: the mapping val stored under "g".
adjust_g(val, c) == g_case(val, DictGet(val, "k"), c)

\* Which branch of lines 70-84 takes the item (key, val).
branch(key, val) ==
    IF key \in ColourKeys /\ IsDict(val) THEN "colour"
    ELSE IF key = "g" /\ IsDict(val) THEN "gradient"
    ELSE "recurse"

RECURSIVE recurse(_, _), recurse_items(_, _, _), items_step(_, _, _, _),
          recurse_elems(_, _, _), elems_step(_, _, _, _)

\* A walk that handles the mapping of a direct-colour key or of "g" and then
\* descends into it as well (`if` in place of `elif` at line 79 and of `else`
\* at line 83).
and_descend(r, c) == IF r.raised THEN r ELSE After(r, recurse(r.val, c))

visit_item_descends(val, c, b) ==
    IF b = "colour" THEN and_descend(adjust_colour(val, c), c)
    ELSE IF b = "gradient" THEN and_descend(adjust_g(val, c), c)
    ELSE recurse(val, c)

\* The body of `for key, val in obj.items()`, given b = branch(key, val).
visit_item(val, c, b) ==
    IF b = "colour" THEN adjust_colour(val, c)
    ELSE IF b = "gradient" THEN adjust_g(val, c)
    ELSE recurse(val, c)

\* Lines 68-84 from the i-th item on; items_step is the rest of the loop
\* after the i-th item, whose outcome is r.
recurse_items(o, i, c) ==
    IF i > Len(o.keys) THEN Unchanged(o)
    ELSE items_step(o, i, c, visit_item(o.vals[i], c, branch(o.keys[i], o.vals[i])))

items_step(o, i, c, r) ==
    IF r.raised THEN Result(TRUE, [o EXCEPT !.vals[i] = r.val], Prefix(o.keys[i], r.adj))
    ELSE Then(o.keys[i], r, recurse_items([o EXCEPT !.vals[i] = r.val], i + 1, c))

\* Lines 86-87 from the i-th element on.
recurse_elems(o, i, c) ==
    IF i > Len(o.vals) THEN Unchanged(o)
    ELSE elems_step(o, i, c, recurse(o.vals[i], c))

elems_step(o, i, c, r) ==
    IF r.raised THEN Result(TRUE, [o EXCEPT !.vals[i] = r.val], Prefix(Index(i - 1), r.adj))
    ELSE Then(Index(i - 1), r, recurse_elems([o EXCEPT !.vals[i] = r.val], i + 1, c))

recurse(o, c) ==
    IF IsDict(o) THEN recurse_items(o, 1, c)
    ELSE IF IsList(o) THEN recurse_elems(o, 1, c)
    ELSE Unchanged(o)

-----------------------------------------------------------------------------
(* The inputs: configurations, triplets, gradient arrays and documents *)

\* Longest gradient array, and most keyframe entries, of the documents checked.
MaxGradLen == 8

MaxKeyframes == 3

\* Settings of the four flags, neutral and not, moderate and extreme.
Contrasts == {Unit, 2 * Unit, -Unit, 10 * Unit}

Brightnesses == {0, 300, -5 * Unit}

Saturations == {Unit, 0, 2 * Unit}

Hues == {0, 120, -90}

TripletConfigs ==
    {Config(c, b, s, h) : c \in Contrasts, b \in Brightnesses, s \in Saturations, h \in Hues}

Grayscale == Config(Unit, 0, 0, 0)

Darker == Config(Unit, -300, Unit, 0)

DocConfigs == {Neutral, Grayscale, Darker, Config(2 * Unit, 0, Unit, 180), Config(Unit, 100, Half, 120)}

\* Channel values inside and outside [0, 1].
Channels == {-Half, 0, 250, Unit, 2 * Unit}

Triplets == {<<Unit, 0, 0>>, <<0, Unit, 0>>, <<250, 500, 750>>,
             <<2 * Unit, -Half, Half>>, <<0, -Unit, -Unit>>}

NumList(ns) == List([i \in 1..Len(ns) |-> Num(ns[i])])

\* Values found under "k", "s" and "e": colours of 3, 4 and 5 numbers, shorter
\* lists, and shapes that are no colour.
Colours ==
    {NumList(t) : t \in Triplets}
    \cup {NumList(t \o <<a>>) : t \in Triplets, a \in {Unit, Half}}
    \cup {NumList(<<Unit, 0, 0, Unit, 700>>), NumList(<<>>), NumList(<<Unit, 0>>)}

NotColours ==
    {List(<<Str(<<"a">>), Str(<<"b">>), Str(<<"c">>)>>),
     List(<<Bool(TRUE), Bool(FALSE), Bool(TRUE)>>),
     List(<<Num(Unit), Null, Num(0), Num(Unit)>>),
     List(<<NumList(<<Unit, 0, 0>>)>>),
     Num(5 * Unit), Null, Str(<<"r", "e", "d">>), Dict(<<"k">>, <<NumList(<<Unit, 0, 0, Unit>>)>>)}

KVals == Colours \cup NotColours

Red == NumList(<<Unit, 0, 0, Unit>>)

Teal == NumList(<<0, Half, Half>>)

\* One mapping with the value kv under "k" among other keys, stored under key.
Field(key, kv) ==
    Dict(<<"nm", key, "ix">>,
         <<Str(<<"f">>), Dict(<<"a", "k", "ix">>, <<Num(0), kv, Num(Unit)>>), Num(2 * Unit)>>)

StaticDocs == {Field(key, kv) : key \in ColourKeys \cup {"g", "x"}, kv \in KVals}

\* Entries of a keyframe sequence: with "s" and "e", with one of them, with
\* neither, with a colour nested inside, and entries that are no mapping.
Entries ==
    {Dict(<<"t", "s", "e">>, <<Num(0), Red, NumList(<<0, 0, Unit, Half>>)>>),
     Dict(<<"s">>, <<Teal>>),
     Dict(<<"t", "i">>, <<Num(30 * Unit), NumList(<<Unit, Unit, Unit>>)>>),
     Dict(<<"e", "c">>, <<Red, Dict(<<"k">>, <<Red>>)>>),
     Num(5 * Unit),
     Str(<<"x">>)}

KeyframeSeqs == UNION {[1..n -> Entries] : n \in 1..MaxKeyframes}

KeyframeDocs == {Field("c", List(k)) : k \in KeyframeSeqs}

\* Gradient arrays [offset, r, g, b, offset, r, g, b, ...] of every length up
\* to MaxGradLen; the last pattern holds a value that is no number.
Patterns ==
    {<<Num(0), Num(Unit), Num(0), Num(0)>>,
     <<Num(Half), Num(250), Num(500), Num(750)>>,
     <<Num(Unit), Num(2 * Unit), Num(-Half), Num(Half)>>,
     <<Num(0), Num(0), Num(-Unit), Num(-Unit)>>,
     <<Num(Half), Num(0), Str(<<"g">>), Num(Unit)>>}

GradArrays ==
    {[j \in 1..n |-> IF j <= 4 THEN first[j] ELSE second[((j - 1) % 4) + 1]] :
        n \in 0..MaxGradLen, first \in Patterns, second \in Patterns}

Gradients == {Dict(<<"a", "k">>, <<Num(0), List(arr)>>) : arr \in GradArrays}
             \cup {Dict(<<"k">>, <<Num(5 * Unit)>>), Dict(<<>>, <<>>)}

GradientDocs ==
    {Dict(<<"g", "o">>, <<Dict(<<"p", "k">>, <<Num(2 * Unit), gr>>), Num(100 * Unit)>>) :
        gr \in Gradients}

\* Colour fields nested inside the mapping of a direct-colour key or of "g",
\* and direct-colour keys whose value is no mapping.
NestedDocs ==
    {Dict(<<key>>, <<Dict(<<"k", "x", "it">>,
                          <<kv, Dict(<<"fc">>, <<Dict(<<"k">>, <<Red>>)>>),
                            List(<<Dict(<<"c">>, <<Dict(<<"k">>, <<Teal>>)>>)>>)>>)>>) :
        key \in ColourKeys \cup {"g", "x"}, kv \in {Red, Teal, List(<<Dict(<<"s">>, <<Red>>)>>)}}
    \cup {Dict(<<"g">>, <<Dict(<<"k", "c">>,
                               <<Dict(<<"k", "sc">>, <<List(arr), Dict(<<"k">>, <<Red>>)>>),
                                 Dict(<<"k">>, <<Teal>>)>>)>>) :
            arr \in {a \in GradArrays : Len(a) \in {4, 5}}}
    \cup {Dict(<<key>>, <<List(<<Dict(<<"c">>, <<Dict(<<"k">>, <<kv>>)>>), Num(Unit)>>)>>) :
            key \in {"c", "g"}, kv \in {Red, Teal}}

\* A document holding the field d deep inside layers and shapes, among
\* fields that hold no colour.
Wrap(d) ==
    Dict(<<"v", "layers", "op">>,
         <<Str(<<"5">>),
           List(<<Dict(<<"nm", "ks", "shapes">>,
                       <<Str(<<"l">>),
                         Dict(<<"o", "p">>, <<Dict(<<"k">>, <<Num(100 * Unit)>>),
                                              Dict(<<"k">>, <<NumList(<<Unit, 0, 0>>)>>)>>),
                         List(<<d, Dict(<<"ty">>, <<Str(<<"t", "r">>)>>)>>)>>)>>),
           Num(60 * Unit)>>)

WrappedDocs == {Wrap(d) : d \in StaticDocs \cup GradientDocs \cup NestedDocs}

Documents == StaticDocs \cup KeyframeDocs \cup GradientDocs \cup NestedDocs \cup WrappedDocs

TripletInputs == {<<Num(r), Num(g), Num(b)>> : r \in Channels, g \in Channels, b \in Channels}

-----------------------------------------------------------------------------
(* The state machine: one call of recurse, adjust_gradient or               *)
(* adjust_color_triplet on an input, with a configuration.                  *)

Init ==
    /\ \/ fn = "recurse" /\ input \in Documents /\ cfg \in DocConfigs
       \/ fn = "adjust_gradient" /\ input \in Gradients /\ cfg \in DocConfigs
       \/ fn = "adjust_color_triplet" /\ input \in TripletInputs /\ cfg \in TripletConfigs
    /\ pc = "call"
    /\ obj = input
    /\ adj = <<>>

Finish(r) ==
    /\ obj' = r.val
    /\ adj' = r.adj
    /\ pc' = IF r.raised THEN "raised" ELSE "done"
    /\ UNCHANGED <<fn, cfg, input>>

\* recurse(data, cfg), as main calls it on the decoded document.
CallRecurse ==
    /\ fn = "recurse" /\ pc = "call"
    /\ Finish(recurse(obj, cfg))

CallAdjustGradient ==
    /\ fn = "adjust_gradient" /\ pc = "call"
    /\ Finish(adjust_gradient(obj, cfg))

CallAdjustColorTriplet ==
    /\ fn = "adjust_color_triplet" /\ pc = "call"
    /\ LET t == adjust_color_triplet(obj[1], obj[2], obj[3], cfg)
       IN  Finish(Result(t.raised, <<t.r, t.g, t.b>>, << <<>> >>))

Next == CallRecurse \/ CallAdjustGradient \/ CallAdjustColorTriplet

Spec == Init /\ [][Next]_vars

-----------------------------------------------------------------------------
(* Reading a document: the value at a path, and what the calls see *)

\* The child of a mapping under a key, or of a sequence at an index.
Child(node, step) ==
    IF IsDict(node) THEN DictGet(node, step)
    ELSE IF IsList(node) /\ \E i \in 1..Len(node.vals) : Index(i - 1) = step
    THEN node.vals[CHOOSE i \in 1..Len(node.vals) : Index(i - 1) = step]
    ELSE Null

RECURSIVE At(_, _)
At(node, path) == IF path = <<>> THEN node ELSE At(Child(node, Head(path)), Tail(path))

Called == fn = "recurse" /\ pc \in {"done", "raised"}

Returned == fn = "recurse" /\ pc = "done"

clamp01(x) == Max(0, Min(Unit, x))

\* A colour as the data model has it: a sequence of 3 or 4 numbers in [0, 1].
IsRgba(v) ==
    /\ IsList(v)
    /\ Len(v.vals) \in {3, 4}
    /\ \A i \in 1..Len(v.vals) : v.vals[i].t = "num" /\ v.vals[i].n \in 0..Unit

\* The three channels adjust_color_triplet returns for the first three values of v.
Channels3(v, c) ==
    LET t == adjust_color_triplet(v[1], v[2], v[3], c) IN <<t.r, t.g, t.b>>

-----------------------------------------------------------------------------
(* C1 *)

\* C1: on every tree and every configuration recurse runs to completion
\* without raising an error; a malformed colour shape is skipped.
C1_NeverRaises == fn = "recurse" => pc # "raised"

-----------------------------------------------------------------------------
(* C2 *)

\* A non-empty sequence of keyframe mappings whose "s" and "e" are colours.
IsKeyframeSeq(k) ==
    /\ IsList(k)
    /\ Len(k.vals) > 0
    /\ \A j \in 1..Len(k.vals) :
          /\ IsDict(k.vals[j])
          /\ \A m \in 1..Len(k.vals[j].keys) :
                k.vals[j].keys[m] \in {"s", "e"} => IsRgba(k.vals[j].vals[m])

\* The entry f1 is the entry f0 with its "s" and "e" replaced by their
\* adjusted RGBA, and nothing else changed.
EntryAdjusted(f0, f1) ==
    /\ IsDict(f1)
    /\ f1.keys = f0.keys
    /\ \A m \in 1..Len(f0.keys) :
          f1.vals[m] = IF f0.keys[m] \in {"s", "e"}
                       THEN adjust_rgba(f0.vals[m], cfg).val
                       ELSE f0.vals[m]

\* C2: under a direct-colour key of the document, a "k" that is a sequence of
\* keyframe mappings of any length has every "s" and every "e" replaced by
\* its adjusted RGBA once recurse has been called, entries without them
\* being left as they were.
C2_KeyframesAdjusted ==
    Called =>
        \A i \in 1..Len(input.keys) :
            (/\ input.keys[i] \in ColourKeys
             /\ IsDict(input.vals[i])
             /\ IsKeyframeSeq(DictGet(input.vals[i], "k")))
            => LET k0 == DictGet(input.vals[i], "k")
                   k1 == DictGet(obj.vals[i], "k")
               IN  /\ pc = "done"
                   /\ IsList(k1)
                   /\ Len(k1.vals) = Len(k0.vals)
                   /\ \A j \in 1..Len(k0.vals) : EntryAdjusted(k0.vals[j], k1.vals[j])

-----------------------------------------------------------------------------
(* C3 *)

\* The two values have the same keys in the same order and the same number
\* of elements, all the way down.
RECURSIVE SameShape(_, _)
SameShape(a, b) ==
    /\ a.t = b.t
    /\ a.keys = b.keys
    /\ Len(a.vals) = Len(b.vals)
    /\ \A i \in 1..Len(a.vals) : SameShape(a.vals[i], b.vals[i])

\* C3: a colour of 3 or 4 numbers that recurse adjusts keeps its length, holds
\* the adjusted channels in its first three places and keeps its alpha; and
\* recurse adds, removes or reorders no key and no element of the tree.
C3_ShapePreserved ==
    Returned =>
        /\ \A i \in 1..Len(adj) :
              LET before == At(input, adj[i])
                  after == At(obj, adj[i])
              IN  IsRgba(before) =>
                      /\ IsList(after)
                      /\ Len(after.vals) = Len(before.vals)
                      /\ SubSeq(after.vals, 1, 3) = Channels3(before.vals, cfg)
                      /\ Len(before.vals) = 4 => after.vals[4] = before.vals[4]
        /\ SameShape(input, obj)

-----------------------------------------------------------------------------
(* C4 *)

\* What stands for a value that belongs to a recognized colour shape.
Hole == [t |-> "hole", n |-> 0, s |-> <<>>, keys |-> <<>>, vals |-> <<>>]

\* An entry of a keyframe sequence without its "s" and "e".
MaskEntry(f) ==
    IF IsDict(f)
    THEN [f EXCEPT !.vals = [m \in 1..Len(f.vals) |->
                                IF f.keys[m] \in {"s", "e"} THEN Hole ELSE f.vals[m]]]
    ELSE f

\* A "k" under a direct-colour key: a static colour is a sequence of 3 or
\* more whose first element is a number; a keyframe sequence is a non-empty
\* sequence whose first element is a mapping; anything else is not recognized.
MaskK(k) ==
    IF IsList(k) /\ Len(k.vals) >= 3 /\ k.vals[1].t = "num" THEN Hole
    ELSE IF IsList(k) /\ Len(k.vals) > 0 /\ IsDict(k.vals[1])
    THEN List([j \in 1..Len(k.vals) |-> MaskEntry(k.vals[j])])
    ELSE k

MaskColour(val) == IF HasKey(val, "k") THEN DictSet(val, "k", MaskK(DictGet(val, "k"))) ELSE val

\* A gradient array without the channel slots of its complete groups.
MaskArray(arr) ==
    [j \in 1..Len(arr) |->
        IF (j - 1) % 4 # 0 /\ (j - 1) - ((j - 1) % 4) + 3 < Len(arr) THEN Hole ELSE arr[j]]

MaskG(val) ==
    LET k == DictGet(val, "k")
    IN  IF IsDict(k) /\ IsList(DictGet(k, "k"))
        THEN DictSet(val, "k", DictSet(k, "k", List(MaskArray(DictGet(k, "k").vals))))
        ELSE val

\* The tree without the values of its recognized colour shapes.
RECURSIVE Mask(_)
Mask(node) ==
    IF IsDict(node)
    THEN [node EXCEPT !.vals = [i \in 1..Len(node.vals) |->
            IF node.keys[i] \in ColourKeys /\ IsDict(node.vals[i]) THEN MaskColour(node.vals[i])
            ELSE IF node.keys[i] = "g" /\ IsDict(node.vals[i]) THEN MaskG(node.vals[i])
            ELSE Mask(node.vals[i])]]
    ELSE IF IsList(node)
    THEN [node EXCEPT !.vals = [i \in 1..Len(node.vals) |-> Mask(node.vals[i])]]
    ELSE node

\* C4: after recurse, every key, element and scalar outside the recognized
\* colour shapes (a static colour "k", the "s" and "e" of a keyframe entry,
\* the channel slots of a gradient array) is what it was, at the same place
\* and in the same key order; a direct-colour key or "g" whose value has
\* another shape keeps that value.
C4_FrameUnchanged == Called => Mask(obj) = Mask(input)

-----------------------------------------------------------------------------
(* C5 *)

GradientReturned ==
    fn = "adjust_gradient" /\ pc = "done" /\ IsList(DictGet(input, "k"))

ArrayBefore == DictGet(input, "k").vals

ArrayAfter == DictGet(obj, "k").vals

\* The slots i+1..i+3 (0-based) of the array after the call hold the adjusted
\* channels of the same slots before it.
GroupAdjusted(i) ==
    SubSeq(ArrayAfter, i + 2, i + 4) = Channels3(SubSeq(ArrayBefore, i + 2, i + 4), cfg)

\* C5: adjust_gradient adjusts the channel slots i+1..i+3 of every group
\* starting at i = 0, 4, 8, ... with i+3 < n, and leaves alone every offset
\* slot, every slot of a trailing incomplete group, the length of the array
\* and the rest of the mapping.
C5_CompleteGroupsAdjusted ==
    GradientReturned =>
        /\ Len(ArrayAfter) = Len(ArrayBefore)
        /\ \A j \in 0..(Len(ArrayBefore) - 1) :
              IF j % 4 = 0 /\ j + 3 < Len(ArrayBefore)
              THEN GroupAdjusted(j) /\ ArrayAfter[j + 1] = ArrayBefore[j + 1]
              ELSE (j - (j % 4)) + 3 >= Len(ArrayBefore) => ArrayAfter[j + 1] = ArrayBefore[j + 1]
        /\ obj.keys = input.keys
        /\ \A m \in 1..Len(input.keys) : input.keys[m] # "k" => obj.vals[m] = input.vals[m]

\* An array of 8 values returned with both of its stops changed, and one of 7
\* returned with its trailing 3 values as they were.
C5_Witness ==
    /\ GradientReturned
    /\ Len(ArrayBefore) = 8
    /\ SubSeq(ArrayAfter, 2, 4) # SubSeq(ArrayBefore, 2, 4)
    /\ SubSeq(ArrayAfter, 6, 8) # SubSeq(ArrayBefore, 6, 8)
    /\ ArrayAfter[1] = ArrayBefore[1] /\ ArrayAfter[5] = ArrayBefore[5]

-----------------------------------------------------------------------------
(* C6 *)

TripletReturned == fn = "adjust_color_triplet" /\ pc = "done"

\* C6 as stated: at the neutral configuration adjust_color_triplet returns
\* every triplet unchanged.
C6_NeutralIdentity == (TripletReturned /\ cfg = Neutral) => obj = input

\* C6, amended: at the neutral configuration adjust_color_triplet returns each
\* channel clamped into [0, 1]: a triplet with its channels in [0, 1] is
\* returned unchanged.
C6_NeutralClamp ==
    (TripletReturned /\ cfg = Neutral) =>
        \A i \in 1..3 : obj[i] = Num(clamp01(input[i].n))

\* A triplet of three different channels in [0, 1] returned unchanged.
C6_Witness ==
    /\ TripletReturned /\ cfg = Neutral
    /\ input = <<Num(250), Num(Unit), Num(0)>>
    /\ obj = input

-----------------------------------------------------------------------------
(* C7 *)

\* 1000 times the luma 0.299r + 0.587g + 0.114b of the input, exactly.
Luma1000 == 299 * input[1].n + 587 * input[2].n + 114 * input[3].n

\* x is the value y / 1000 to within the resolution of the numbers.
Approx(x, y) == 1000 * x <= y /\ y < 1000 * (x + 1)

\* C7 as stated: with saturation 0 and the other settings neutral the three
\* channels returned are equal, each the luma of the input.
C7_GrayscaleIsLuma ==
    (TripletReturned /\ cfg = Grayscale) =>
        /\ obj[1] = obj[2] /\ obj[2] = obj[3]
        /\ Approx(obj[1].n, Luma1000)

\* C7, amended: with saturation 0 and the other settings neutral the three
\* channels returned are equal, each the luma of the input clamped into
\* [0, 1]: the luma itself when the input channels lie in [0, 1].
C7_GrayscaleIsClampedLuma ==
    (TripletReturned /\ cfg = Grayscale) =>
        /\ obj[1] = obj[2] /\ obj[2] = obj[3]
        /\ Approx(obj[1].n, Max(0, Min(1000 * Unit, Luma1000)))

\* A triplet in [0, 1] that is not gray, returned as three equal channels.
C7_Witness ==
    /\ TripletReturned /\ cfg = Grayscale
    /\ input = <<Num(Unit), Num(0), Num(250)>>
    /\ obj[1] = obj[2] /\ obj[2] = obj[3] /\ obj[1].n \in 1..(Unit - 1)

-----------------------------------------------------------------------------
(* C8 *)

\* C8: whatever the triplet and the configuration, each channel that
\* adjust_color_triplet returns lies in [0, 1].
C8_OutputInRange ==
    TripletReturned => \A i \in 1..3 : obj[i].n >= 0 /\ obj[i].n <= Unit

\* A triplet outside [0, 1] returned under extreme settings of all four flags.
C8_Witness ==
    /\ TripletReturned
    /\ cfg = Config(10 * Unit, -5 * Unit, 2 * Unit, -90)
    /\ input = <<Num(2 * Unit), Num(-Half), Num(250)>>

-----------------------------------------------------------------------------
(* C9 *)

\* C9 as stated: of a gradient array of length 8 only the group at index 0 is
\* adjusted; the stop at index 4 is left as it was.
C9_LastGroupDropped ==
    (GradientReturned /\ Len(ArrayBefore) = 8) =>
        /\ adj = << <<"k", Index(0)>> >>
        /\ SubSeq(ArrayAfter, 6, 8) = SubSeq(ArrayBefore, 6, 8)

\* C9, amended: the loop over range(0, len(arr)-3, 4) visits every complete
\* group, the last one of an array whose length is a multiple of 4 included:
\* of an array of length 8 the groups at index 0 and at index 4 are both
\* adjusted.  Only a trailing incomplete group is passed over.
C9_EveryCompleteGroupVisited ==
    GradientReturned =>
        /\ adj = [m \in 1..(Len(ArrayBefore) \div 4) |-> <<"k", Index(4 * (m - 1))>>]
        /\ (Len(ArrayBefore) % 4 = 0 /\ Len(ArrayBefore) > 0)
              => GroupAdjusted(Len(ArrayBefore) - 4)

\* An array of length 8 whose stop at index 4 was visited and changed.
C9_Witness ==
    /\ GradientReturned
    /\ Len(ArrayBefore) = 8
    /\ adj = << <<"k", Index(0)>>, <<"k", Index(4)>> >>
    /\ SubSeq(ArrayAfter, 6, 8) # SubSeq(ArrayBefore, 6, 8)

-----------------------------------------------------------------------------
(* C10 *)

\* The steps of a path that enter the mapping of a direct-colour key or of "g".
Owners(path) ==
    {m \in 1..Len(path) :
        /\ path[m] \in ColourKeys \cup {"g"}
        /\ IsDict(At(input, SubSeq(path, 1, m - 1)))
        /\ IsDict(At(input, SubSeq(path, 1, m)))}

\* C10: in one run of recurse the transform is applied at most once to a
\* colour position, and only through the special case of the one
\* direct-colour key or "g" whose mapping holds it: no position is adjusted
\* twice, no colour field nested inside such a mapping is adjusted, and an
\* adjusted colour is the colour of the input adjusted once.
C10_AdjustedAtMostOnce ==
    Called =>
        /\ \A i, j \in 1..Len(adj) : i # j => adj[i] # adj[j]
        /\ \A i \in 1..Len(adj) : Cardinality(Owners(adj[i])) = 1
        /\ pc = "done" =>
              \A i \in 1..Len(adj) :
                  IsList(At(input, adj[i])) =>
                      At(obj, adj[i]) = adjust_rgba(At(input, adj[i]), cfg).val

\* A colour changed once under "c", with the colours nested inside the
\* mapping of "c" as they were.
C10_Witness ==
    /\ Returned /\ cfg = Darker
    /\ adj = << <<"c", "k">> >>
    /\ At(input, <<"c", "k">>) = Red
    /\ At(obj, <<"c", "k">>) = adjust_rgba(Red, Darker).val
    /\ At(obj, <<"c", "k">>) # Red
    /\ At(input, <<"c", "x", "fc", "k">>) = Red
    /\ At(obj, <<"c", "x", "fc", "k">>) = Red
    /\ At(obj, <<"c", "it", Index(0), "c", "k">>) = Teal
====
